---------------------------- MODULE Spec2Model ----------------------------
(***************************************************************************)
(* A model of the xgboost_synthetic example (build-train-deploy.ipynb) and *)
(* of the Prow workflow configuration (prow_config.yaml).                  *)
(*                                                                         *)
(*   Spec       the notebook's code cells run in order, one kernel         *)
(*   FairSpec   Spec with the kernel always running the next cell          *)
(*   ServeSpec  one HousingServe instance under arbitrary calls            *)
(*   ProwSpec   the workflows a change triggers                            *)
(***************************************************************************)
EXTENDS Integers, Sequences, FiniteSets, TLC

VARIABLES
    \* ---- notebook kernel ----
    pc,            \* index in Cells of the next code cell to run
    inProgress,    \* the notebook-issued operations that have been called and not returned
    error,         \* the cell whose exception ended the run, or NoError
    issued,        \* the operations issued so far, in order
    localResult,   \* Out[] of the local predict cell
    executable,    \* preprocessor.executable.name
    image_tag,     \* builder.image_tag
    builds,        \* images built and pushed, in order
    jobs,          \* batch/v1 Jobs in the cluster
    deployments,   \* Deployments in the cluster
    services,      \* Services in the cluster
    response,      \* result of util.predict_nparray
    printed,       \* what the prediction cell printed
    package,       \* the compiled pipeline package
    runs,          \* pipeline runs submitted
    \* ---- the process environment and the file system ----
    environ,       \* os.environ["MODEL_FILE"], or Unset
    files,         \* file name -> the model joblib.dump wrote there, or NoFile
    trained,       \* file name -> the model the most recent train() fitted for it
    \* ---- one HousingServe instance (ServeSpec) ----
    hs,            \* the instance: [model_file, model], or NoInstance
    call,          \* the last call made on it and its input
    outcome,       \* what that call returned or raised
    calls,         \* calls made so far
    loads,         \* how often this instance's predict read the model file
    failedLoads,   \* how often this instance's predict failed to read it
    \* ---- Prow (ProwSpec) ----
    changed,       \* the files a change touches
    job_type,      \* presubmit | postsubmit | periodic
    triggered,     \* names of the workflows started for it, or NotRun
    \* ---- read_synthetic_input (SplitSpec) ----
    test_size,     \* the test_size argument, in units of 1 / TestSizeUnits
    dataset,       \* what make_regression generated: [X, y]
    split          \* what read_synthetic_input returned, or NoSplit

nbVars    == <<pc, inProgress, error, issued, localResult, executable, image_tag,
               builds, jobs, deployments, services, response, printed, package, runs>>
osVars    == <<environ, files, trained>>
serveVars == <<hs, call, outcome, calls, loads, failedLoads>>
prowVars  == <<changed, job_type, triggered>>
splitVars == <<test_size, dataset, split>>
vars      == <<nbVars, osVars, serveVars, prowVars, splitVars>>

--------------------------------------------------------------------------
(* Bounds of the model *)

\* distinct feature rows an input may hold
NRows == 2
\* distinct values a model may predict
NPreds == 2
\* longest input X handed to predict
MaxLen == 2
\* most calls made on one HousingServe instance
MaxCalls == 5
\* most files in one change
MaxChanged == 2
\* test_size arguments are the multiples of 1 / 2^TestSizeBits between 0 and 1
TestSizeBits == 6
\* distinct data sets make_regression may generate
NSeeds == 2

--------------------------------------------------------------------------
(* Values *)

None    == "<None>"
Unset   == "<unset>"
NoError == "<no error>"

Truthy(s) == s # None /\ s # ""

DefaultModelFile == "mockup-model.dat"

Rows  == 1..NRows
Preds == 1..NPreds

\* A fitted regressor: the value it predicts for every row. The regressors a
\* fit may yield: one per shift of the predictions, so that any two of them
\* differ on every row and each of them tells the rows apart.
Models == {[r \in Rows |-> ((r + k) % NPreds) + 1] : k \in 1..NPreds}
NoFile == <<>>
\* self.model = None
NoModel == <<>>
NoInstance == [model_file |-> None, model |-> NoModel]

\* ndarrays of rows, the empty one included
Inputs == UNION {[1..n -> Rows] : n \in 0..MaxLen}

FileNames == {DefaultModelFile, "env.dat", "other.dat"}
ArgValues == {None, "", DefaultModelFile, "other.dat"}
EnvValues == {Unset, "", "env.dat"}

--------------------------------------------------------------------------
(* class HousingServe *)

\* Mutant: the environment variable takes precedence over the argument.
HousingServeInit_EnvFirst(model_file, env) ==
    IF env # Unset
    THEN [self |-> [model_file |-> env, model |-> NoModel], consulted |-> TRUE]
    ELSE IF ~Truthy(model_file)
         THEN [self |-> [model_file |-> DefaultModelFile, model |-> NoModel],
               consulted |-> TRUE]
         ELSE [self |-> [model_file |-> model_file, model |-> NoModel],
               consulted |-> TRUE]

\* __init__(self, model_file=None): the new instance, and whether os.environ
\* was looked at on the way.
HousingServeInit(model_file, env) ==
    IF ~Truthy(model_file)
    THEN IF env # Unset
         THEN [self |-> [model_file |-> env, model |-> NoModel], consulted |-> TRUE]
         ELSE [self |-> [model_file |-> DefaultModelFile, model |-> NoModel],
               consulted |-> TRUE]
    ELSE [self |-> [model_file |-> model_file, model |-> NoModel], consulted |-> FALSE]

\* joblib.dump(model, model_file) succeeds when model_file names a file.
CanDump(name) == name \in FileNames

\* Mutant: a model file that already exists is not overwritten.
save_model_KeepExisting(fs, model, model_file) ==
    IF fs[model_file] # NoFile THEN fs ELSE [fs EXCEPT ![model_file] = model]

\* save_model(model, model_file)
save_model(fs, model, model_file) == [fs EXCEPT ![model_file] = model]

\* joblib.load(model_file) succeeds when the file holds a model.
CanLoad(fs, name) == name \in DOMAIN fs /\ fs[name] # NoFile

\* model.predict(data=X): one prediction per row of X
ModelPredict(model, X) == [i \in 1..Len(X) |-> model[X[i]]]

\* train(self): fits `fitted` on fresh synthetic data and saves it. Yields the
\* file system afterwards and whether the call raised.
HousingServeTrain(self, fs, fitted) ==
    IF CanDump(self.model_file)
    THEN [fs |-> save_model(fs, fitted, self.model_file), raised |-> FALSE]
    ELSE [fs |-> fs, raised |-> TRUE]

\* Mutant: the postprocessing returns the prediction of the last row.
HousingServePredict_LastRow(self, X, fs) ==
    IF self.model = NoModel /\ ~CanLoad(fs, self.model_file)
    THEN [self |-> self, value |-> <<>>, raised |-> TRUE, loaded |-> FALSE]
    ELSE LET model      == IF self.model = NoModel THEN fs[self.model_file]
                                                   ELSE self.model
             after      == [self EXCEPT !.model = model]
             prediction == [i \in 1..Len(X) |-> model[X[i]]]
             loaded     == self.model = NoModel
             n          == Len(prediction)
         IN  IF n = 0
             THEN [self |-> after, value |-> <<>>, raised |-> TRUE, loaded |-> loaded]
             ELSE [self |-> after, value |-> <<<<prediction[n], prediction[n]>>>>,
                   raised |-> FALSE, loaded |-> loaded]

\* Mutant: the model file is read on every call.
HousingServePredict_Reload(self, X, fs) ==
    IF ~CanLoad(fs, self.model_file)
    THEN [self |-> self, value |-> <<>>, raised |-> TRUE, loaded |-> FALSE]
    ELSE LET model      == fs[self.model_file]
             after      == [self EXCEPT !.model = model]
             prediction == [i \in 1..Len(X) |-> model[X[i]]]
         IN  IF Len(prediction) = 0
             THEN [self |-> after, value |-> <<>>, raised |-> TRUE, loaded |-> TRUE]
             ELSE [self |-> after, value |-> <<<<prediction[1], prediction[1]>>>>,
                   raised |-> FALSE, loaded |-> TRUE]

\* Mutant: a model file that cannot be read is passed over and None returned.
HousingServePredict_SwallowLoadError(self, X, fs) ==
    IF self.model = NoModel /\ ~CanLoad(fs, self.model_file)
    THEN [self |-> self, value |-> <<>>, raised |-> FALSE, loaded |-> FALSE]
    ELSE LET model      == IF self.model = NoModel THEN fs[self.model_file]
                                                   ELSE self.model
             after      == [self EXCEPT !.model = model]
             prediction == [i \in 1..Len(X) |-> model[X[i]]]
             loaded     == self.model = NoModel
         IN  IF Len(prediction) = 0
             THEN [self |-> after, value |-> <<>>, raised |-> TRUE, loaded |-> loaded]
             ELSE [self |-> after, value |-> <<<<prediction[1], prediction[1]>>>>,
                   raised |-> FALSE, loaded |-> loaded]

\* predict(self, X, feature_names): the instance afterwards, the value
\* returned, whether the call raised and whether the model file was read.
HousingServePredict(self, X, fs) ==
    IF self.model = NoModel /\ ~CanLoad(fs, self.model_file)
    THEN [self |-> self, value |-> <<>>, raised |-> TRUE, loaded |-> FALSE]
    ELSE LET model      == IF self.model = NoModel THEN fs[self.model_file]
                                                   ELSE self.model
             after      == [self EXCEPT !.model = model]
             prediction == ModelPredict(model, X)
             loaded     == self.model = NoModel
         IN  IF Len(prediction) = 0
             THEN \* prediction.item(0): IndexError, after self.model was set
                  [self |-> after, value |-> <<>>, raised |-> TRUE, loaded |-> loaded]
             ELSE [self |-> after, value |-> <<<<prediction[1], prediction[1]>>>>,
                   raised |-> FALSE, loaded |-> loaded]

--------------------------------------------------------------------------
(* Values the variables of a specification that does not use them keep *)

NoCall    == [op |-> "none", arg |-> None, X |-> <<>>]
NoOutcome == [raised |-> FALSE, value |-> <<>>, consulted |-> FALSE, loaded |-> FALSE]
NotRun    == {"<not run>"}

nbIdle ==
    /\ pc = 1 /\ inProgress = {} /\ error = "<no error>" /\ issued = <<>>
    /\ localResult = <<>> /\ executable = None /\ image_tag = None
    /\ builds = <<>> /\ jobs = <<>> /\ deployments = {} /\ services = {}
    /\ response = [status_code |-> None, content |-> None] /\ printed = None
    /\ package = [name |-> None, ops |-> {}, params |-> {}] /\ runs = <<>>

serveIdle ==
    /\ hs = NoInstance /\ call = NoCall /\ outcome = NoOutcome
    /\ calls = 0 /\ loads = 0 /\ failedLoads = 0

prowIdle == changed = {} /\ job_type = None /\ triggered = NotRun

NoDataset == [X |-> <<>>, y |-> <<>>]
NoSplit   == [train_X |-> <<>>, train_y |-> <<>>, test_X |-> <<>>, test_y |-> <<>>]

splitIdle == test_size = 0 /\ dataset = NoDataset /\ split = NoSplit

osFresh ==
    /\ files = [f \in FileNames |-> NoFile]
    /\ trained = [f \in FileNames |-> NoFile]

--------------------------------------------------------------------------
(* The notebook: its code cells in order *)

Cells == <<"setup", "imports", "imports_kfp", "def_read_synthetic_input",
           "def_train_model", "class_HousingServe", "local_train",
           "local_predict", "fairing_config", "build", "job_deploy", "get_jobs",
           "serving_deploy", "get_deploy", "read_input", "predict_request",
           "clean_up", "experiment_name", "define_pipeline", "compile",
           "run_pipeline", "empty">>

CellIndex(name) == CHOOSE i \in 1..Len(Cells) : Cells[i] = name
End == Len(Cells) + 1

\* cells whose last statement is an operation the notebook issues and waits for
OpCells == {"local_train", "local_predict", "build", "job_deploy",
            "serving_deploy", "predict_request", "compile", "run_pipeline"}

\* cells that call into a library but issue none of those operations
LibraryCells == {"setup", "imports", "imports_kfp", "fairing_config", "read_input"}

\* cells that only define or print
PlainCells == {"def_read_synthetic_input", "def_train_model", "class_HousingServe",
               "get_jobs", "get_deploy", "experiment_name", "define_pipeline",
               "empty"}

ExecutableName == "mockup-data-xgboost-build-train-deploy.py"
Tags           == {"fairing-job:6F63F28C", "fairing-job:0A1B2C3D"}
NAMESPACE      == "user1"
EXPERIMENT_NAME == "MockupModel"

NoResponse == [status_code |-> None, content |-> None]
Responses  == {[status_code |-> "200", content |-> "prediction"],
               [status_code |-> "500", content |-> "500 Internal Server Error"]}

\* how the cluster ends a Job whose pod ran once (backoffLimit 0, restartPolicy Never)
JobStatuses == {[succeeded |-> 1, failed |-> 0, condition |-> "Complete"],
                [succeeded |-> 0, failed |-> 1, condition |-> "Failed"]}

NoPackage == [name |-> None, ops |-> {}, params |-> {}]

\* Mutant: the run goes on with the next statements after an exception.
Halted_AllowErrors == FALSE

\* No cell holds a try/except: an exception ends the run at its cell.
Halted == error # NoError

\* Mutant: the pod spec names the base image instead of the image built.
generate_pod_spec_BaseImage(tag, exe) ==
    [image |-> "xgboost-fairing-example-base:v-20190612",
     command |-> <<"python", <<"/app", exe>>>>, workingDir |-> "/app/"]

\* builder.generate_pod_spec()
generate_pod_spec(tag, exe) ==
    [image |-> tag, command |-> <<"python", <<"/app", exe>>>>, workingDir |-> "/app/"]

\* Mutant: the pipeline function creates a second step after the training.
train_pipeline_WithEval(tag, exe) ==
    {[name |-> "train", image |-> tag, command |-> <<"python", exe, "train">>,
      secret |-> "user-gcp-sa", working_dir |-> "/app", dependencies |-> {}],
     [name |-> "eval", image |-> tag, command |-> <<"python", exe, "eval">>,
      secret |-> "user-gcp-sa", working_dir |-> "/app", dependencies |-> {"train"}]}

\* train_pipeline(): the ops the pipeline function creates
train_pipeline(tag, exe) ==
    {[name |-> "train", image |-> tag, command |-> <<"python", exe, "train">>,
      secret |-> "user-gcp-sa", working_dir |-> "/app", dependencies |-> {}]}

\* the kubectl delete commands the clean-up cell runs: both of its lines,
\* "# !kubectl delete service -l app=ames" and "# !kubectl delete deploy -l
\* app=ames", are comments
CleanUpCommands == {}

\* kubectl delete <kind> -l app=<app>, for every command of the set
KubectlDelete(commands, kind, resources) ==
    {r \in resources :
        ~\E c \in commands : c.kind = kind /\ c.app = r.labels.app}

Running(cell) == ~Halted /\ pc <= Len(Cells) /\ Cells[pc] = cell

Returned == inProgress' = {} /\ pc' = pc + 1 /\ UNCHANGED <<error, issued>>

\* a cell without a notebook-issued operation runs to its end
RunCell ==
    /\ ~Halted /\ pc <= Len(Cells)
    /\ Cells[pc] \in PlainCells \cup LibraryCells
    /\ pc' = pc + 1
    /\ UNCHANGED <<inProgress, error, issued, localResult, executable, image_tag,
                   builds, jobs, deployments, services, response, printed,
                   package, runs, osVars, serveVars, prowVars,
                   splitVars>>

\* Mutant: the call is started in the background and the cell ends at once.
CallOp_NonBlocking ==
    /\ ~Halted /\ pc <= Len(Cells)
    /\ Cells[pc] \in OpCells
    /\ inProgress' = inProgress \cup {Cells[pc]}
    /\ issued' = Append(issued, Cells[pc])
    /\ pc' = pc + 1
    /\ UNCHANGED <<error, localResult, executable, image_tag, builds, jobs,
                   deployments, services, response, printed, package, runs,
                   osVars, serveVars, prowVars,
                   splitVars>>

\* the kernel calls the operation of an operation cell and blocks in it
CallOp ==
    /\ ~Halted /\ pc <= Len(Cells)
    /\ Cells[pc] \in OpCells
    /\ inProgress = {}
    /\ inProgress' = {Cells[pc]}
    /\ issued' = Append(issued, Cells[pc])
    /\ UNCHANGED <<pc, error, localResult, executable, image_tag, builds, jobs,
                   deployments, services, response, printed, package, runs,
                   osVars, serveVars, prowVars,
                   splitVars>>

\* a library call of the current cell raises: nothing catches it
Raise ==
    /\ ~Halted /\ pc <= Len(Cells)
    /\ \/ Cells[pc] \in LibraryCells
       \/ Cells[pc] \in inProgress
    /\ error' = Cells[pc]
    /\ inProgress' = {}
    /\ UNCHANGED <<pc, issued, localResult, executable, image_tag, builds, jobs,
                   deployments, services, response, printed, package, runs,
                   osVars, serveVars, prowVars,
                   splitVars>>

\* HousingServe(model_file="mockup-model.dat").train()
ReturnLocalTrain ==
    \E fitted \in Models :
        LET r == HousingServeTrain(HousingServeInit("mockup-model.dat", environ).self,
                                   files, fitted) IN
        /\ Running("local_train") /\ "local_train" \in inProgress
        /\ ~r.raised
        /\ files' = r.fs
        /\ trained' = [trained EXCEPT !["mockup-model.dat"] = fitted]
        /\ Returned
        /\ UNCHANGED <<localResult, executable, image_tag, builds, jobs, deployments,
                       services, response, printed, package, runs, environ,
                       serveVars, prowVars,
                   splitVars>>

\* (train_X, train_y), (test_X, test_y) = read_synthetic_input()
\* HousingServe().predict(test_X, None)
ReturnLocalPredict ==
    \E test_X \in Inputs :
        LET r == HousingServePredict(HousingServeInit(None, environ).self,
                                     test_X, files) IN
        /\ Running("local_predict") /\ "local_predict" \in inProgress
        /\ Len(test_X) > 0
        /\ ~r.raised
        /\ localResult' = r.value
        /\ Returned
        /\ UNCHANGED <<executable, image_tag, builds, jobs, deployments, services,
                       response, printed, package, runs, osVars, serveVars, prowVars,
                   splitVars>>

\* preprocessor.preprocess(); builder.build()
ReturnBuild ==
    \E tag \in Tags :
        /\ Running("build") /\ "build" \in inProgress
        /\ executable' = ExecutableName
        /\ image_tag' = tag
        /\ builds' = Append(builds, tag)
        /\ Returned
        /\ UNCHANGED <<localResult, jobs, deployments, services, response, printed,
                       package, runs, osVars, serveVars, prowVars,
                   splitVars>>

\* Mutant: the pod spec is deployed without the "train" argument.
ReturnJobDeploy_NoTrainArg ==
    \E status \in JobStatuses :
        LET pod_spec == generate_pod_spec(image_tag, executable) IN
        /\ Running("job_deploy") /\ "job_deploy" \in inProgress
        /\ jobs' = Append(jobs, [namespace |-> NAMESPACE,
                                 labels |-> [app |-> None, deployer |-> "job"],
                                 image |-> pod_spec.image,
                                 command |-> pod_spec.command,
                                 status |-> status])
        /\ Returned
        /\ UNCHANGED <<localResult, executable, image_tag, builds, deployments,
                       services, response, printed, package, runs, osVars,
                       serveVars, prowVars,
                   splitVars>>

\* pod_spec.containers[0].command.extend(["train"]); train_deployer.deploy(pod_spec)
\* returns once the pod's log has ended; the Job's status is the cluster's.
ReturnJobDeploy ==
    \E status \in JobStatuses :
        LET pod_spec == generate_pod_spec(image_tag, executable) IN
        /\ Running("job_deploy") /\ "job_deploy" \in inProgress
        /\ jobs' = Append(jobs, [namespace |-> NAMESPACE,
                                 labels |-> [app |-> None, deployer |-> "job"],
                                 image |-> pod_spec.image,
                                 command |-> pod_spec.command \o <<"train">>,
                                 status |-> status])
        /\ Returned
        /\ UNCHANGED <<localResult, executable, image_tag, builds, deployments,
                       services, response, printed, package, runs, osVars,
                       serveVars, prowVars,
                   splitVars>>

\* deployer = Serving(module_name + ".HousingServe", service_type="ClusterIP",
\*                    labels={"app": "mockup"}); url = deployer.deploy(pod_spec)
ReturnServingDeploy ==
    LET pod_spec == generate_pod_spec(image_tag, executable) IN
    /\ Running("serving_deploy") /\ "serving_deploy" \in inProgress
    /\ deployments' = deployments \cup
           {[labels |-> [app |-> "mockup", deployer |-> "serving"],
             image |-> pod_spec.image,
             command |-> <<"seldon-core-microservice", <<executable, "HousingServe">>>>]}
    /\ services' = services \cup
           {[labels |-> [app |-> "mockup", deployer |-> "serving"],
             type |-> "ClusterIP"]}
    /\ Returned
    /\ UNCHANGED <<localResult, executable, image_tag, builds, jobs, response,
                   printed, package, runs, osVars, serveVars, prowVars,
                   splitVars>>

\* Mutant: the cell checks the status (result.raise_for_status()) before printing.
ReturnPredictRequest_RaiseForStatus ==
    \E r \in Responses :
        /\ Running("predict_request") /\ "predict_request" \in inProgress
        /\ response' = r
        /\ inProgress' = {}
        /\ IF r.status_code = "200"
           THEN printed' = r.content /\ pc' = pc + 1 /\ error' = error
           ELSE printed' = printed /\ pc' = pc /\ error' = "predict_request"
        /\ UNCHANGED <<issued, localResult, executable, image_tag, builds, jobs,
                       deployments, services, package, runs, osVars, serveVars,
                       prowVars, splitVars>>

\* result = util.predict_nparray(full_url, test_X); pprint.pprint(result.content)
\* The response comes back as a value whatever its status, and is printed.
ReturnPredictRequest ==
    \E r \in Responses :
        /\ Running("predict_request") /\ "predict_request" \in inProgress
        /\ response' = r
        /\ printed' = r.content
        /\ Returned
        /\ UNCHANGED <<localResult, executable, image_tag, builds, jobs, deployments,
                       services, package, runs, osVars, serveVars, prowVars,
                   splitVars>>

\* the clean-up cell
CleanUp ==
    /\ Running("clean_up")
    /\ services' = KubectlDelete(CleanUpCommands, "service", services)
    /\ deployments' = KubectlDelete(CleanUpCommands, "deploy", deployments)
    /\ pc' = pc + 1
    /\ UNCHANGED <<inProgress, error, issued, localResult, executable, image_tag,
                   builds, jobs, response, printed, package, runs, osVars,
                   serveVars, prowVars,
                   splitVars>>

\* compiler.Compiler().compile(pipeline_func, pipeline_filename)
ReturnCompile ==
    /\ Running("compile") /\ "compile" \in inProgress
    /\ package' = [name |-> "Training pipeline",
                   ops |-> train_pipeline(image_tag, executable),
                   params |-> {}]
    /\ Returned
    /\ UNCHANGED <<localResult, executable, image_tag, builds, jobs, deployments,
                   services, response, printed, runs, osVars, serveVars, prowVars,
                   splitVars>>

\* arguments = {}
\* client.run_pipeline(experiment.id, run_name, pipeline_filename, arguments)
ReturnRunPipeline ==
    /\ Running("run_pipeline") /\ "run_pipeline" \in inProgress
    /\ runs' = Append(runs, [experiment |-> EXPERIMENT_NAME,
                             name |-> "train_pipeline run",
                             package |-> package,
                             arguments |-> {}])
    /\ Returned
    /\ UNCHANGED <<localResult, executable, image_tag, builds, jobs, deployments,
                   services, response, printed, package, osVars, serveVars, prowVars,
                   splitVars>>

Init ==
    /\ pc = 1 /\ inProgress = {} /\ error = NoError /\ issued = <<>>
    /\ localResult = <<>> /\ executable = None /\ image_tag = None
    /\ builds = <<>> /\ jobs = <<>> /\ deployments = {} /\ services = {}
    /\ response = NoResponse /\ printed = None /\ package = NoPackage /\ runs = <<>>
    /\ environ \in EnvValues
    /\ osFresh
    /\ serveIdle /\ prowIdle /\ splitIdle

Next ==
    \/ RunCell
    \/ CallOp
    \/ Raise
    \/ ReturnLocalTrain
    \/ ReturnLocalPredict
    \/ ReturnBuild
    \/ ReturnJobDeploy
    \/ ReturnServingDeploy
    \/ ReturnPredictRequest
    \/ CleanUp
    \/ ReturnCompile
    \/ ReturnRunPipeline

Spec == Init /\ [][Next]_vars

\* Run in order, the kernel runs the next cell whenever there is one.
FairSpec == Spec /\ WF_vars(Next)

--------------------------------------------------------------------------
(* Claims about the notebook *)

AfterCell(name) == pc > CellIndex(name)

\* C1 as stated: when the run reaches the end without an exception, the
\* training Job launched by train_deployer.deploy has status Succeeded (one
\* succeeded completion, condition Complete).
C1_JobSucceeded ==
    (pc = End /\ error = NoError) =>
        /\ Len(jobs) = 1
        /\ jobs[1].status = [succeeded |-> 1, failed |-> 0, condition |-> "Complete"]

\* C1, amended: run in order with no cell raising, execution reaches the end
\* of the notebook; train_deployer.deploy has then launched exactly one
\* training Job, which runs the built image with the "train" argument and
\* whose final status is the cluster's, Succeeded or Failed.
C1_RunsToEnd ==
    /\ [](AfterCell("job_deploy") =>
            /\ Len(jobs) = 1
            /\ jobs[1].image = image_tag
            /\ jobs[1].command = <<"python", <<"/app", executable>>, "train">>
            /\ jobs[1].status.condition \in {"Complete", "Failed"}
            /\ jobs[1].status.succeeded = 1 <=> jobs[1].status.condition = "Complete")
    /\ ([](error = NoError) => <>(pc = End))

\* the run has ended without an exception and the Job has failed
C1_Witness ==
    /\ pc = End /\ error = NoError
    /\ Len(jobs) = 1 /\ jobs[1].status.condition = "Failed"

\* C2: once a library call of a cell has raised, the run has stopped at that
\* cell: no operation is in progress, every operation issued belongs to that
\* cell or an earlier one, and no further step is taken.
C2_RaiseTerminates ==
    /\ [](error # NoError =>
            /\ pc = CellIndex(error)
            /\ inProgress = {}
            /\ \A i \in 1..Len(issued) : CellIndex(issued[i]) <= CellIndex(error))
    /\ [][error = NoError]_vars

\* train_deployer.deploy has raised after a successful build
C2_Witness ==
    /\ error = "job_deploy"
    /\ issued = <<"local_train", "local_predict", "build", "job_deploy">>
    /\ image_tag # None /\ jobs = <<>> /\ deployments = {}

\* C3 as stated: after a status 500 response to util.predict_nparray the
\* pipeline cells do not run: nothing is compiled and nothing is submitted.
C3_ErrorResponseStops ==
    response.status_code = "500" => package = NoPackage /\ runs = <<>>

\* C3, amended: a status 500 response is returned to the cell as a value;
\* the cell prints its content and ends without an exception, so the run
\* goes on to the cells after it.
C3_ErrorResponsePrinted ==
    response.status_code = "500" =>
        /\ printed = response.content
        /\ error # "predict_request"
        /\ AfterCell("predict_request")

\* the pipeline has been compiled and submitted after a status 500 response
C3_Witness ==
    /\ response.status_code = "500"
    /\ error = NoError
    /\ package # NoPackage /\ Len(runs) = 1

IsTrainStep(op) ==
    /\ op.name = "train"
    /\ op.command = <<"python", executable, "train">>
    /\ op.image = image_tag
    /\ op.working_dir = "/app"
    /\ op.dependencies = {}

\* C6: the pipeline compiled from train_pipeline, and every run submitted
\* with client.run_pipeline, is a DAG of exactly one node, the container
\* step "train" running ["python", <executable name>, "train"] in the image
\* builder.image_tag with working directory /app, without dependencies and
\* without pipeline arguments.
C6_SingleTrainStep ==
    /\ AfterCell("compile") =>
          /\ Cardinality(package.ops) = 1
          /\ \A op \in package.ops : IsTrainStep(op)
          /\ package.params = {}
    /\ \A i \in 1..Len(runs) :
          /\ runs[i].package = package
          /\ Cardinality(runs[i].package.ops) = 1
          /\ \A op \in runs[i].package.ops : IsTrainStep(op)
          /\ runs[i].arguments = {}

\* the pipeline has been submitted
C6_Witness ==
    /\ pc = End /\ Len(runs) = 1
    /\ image_tag \in Tags /\ executable = ExecutableName
    /\ \E op \in runs[1].package.ops : op.name = "train"

\* C7: at most one notebook-issued operation is in progress, it is the one of
\* the current cell, and an operation starts only when none is in progress.
C7_Sequential ==
    /\ [](/\ Cardinality(inProgress) <= 1
          /\ \A op \in inProgress : pc <= Len(Cells) /\ Cells[pc] = op)
    /\ [][(inProgress' # inProgress /\ inProgress' # {}) => inProgress = {}]_vars

\* the serving deploy is in progress after the job deploy has returned
C7_Witness ==
    /\ inProgress = {"serving_deploy"}
    /\ Len(jobs) = 1
    /\ Len(issued) = 5

\* C8: after the clean-up cell no Service and no Deployment labelled
\* app=mockup, as deployer.deploy creates them, exists in the cluster.
C8_CleanUpDeletes ==
    AfterCell("clean_up") =>
        /\ \A r \in services : r.labels.app # "mockup"
        /\ \A r \in deployments : r.labels.app # "mockup"

\* C11: the image is built and pushed once, before any use of it: whenever
\* the job deploy, the serving deploy or the pipeline compile has been
\* issued, builder.build() has returned exactly once, and the Job, the
\* Deployment and the pipeline step all run the tag that build produced.
C11_BuiltOnceBeforeUse ==
    /\ Len(builds) <= 1
    /\ (\E i \in 1..Len(issued) :
            issued[i] \in {"job_deploy", "serving_deploy", "compile", "run_pipeline"})
          => /\ Len(builds) = 1
             /\ "build" \notin inProgress
             /\ image_tag = builds[1]
    /\ \A i \in 1..Len(jobs) : Len(builds) = 1 /\ jobs[i].image = builds[1]
    /\ \A d \in deployments : Len(builds) = 1 /\ d.image = builds[1]
    /\ \A op \in package.ops : Len(builds) = 1 /\ op.image = builds[1]
    /\ \A i \in 1..Len(runs) :
          \A op \in runs[i].package.ops : Len(builds) = 1 /\ op.image = builds[1]

\* the Job, the Deployment and the submitted pipeline step run the one image
C11_Witness ==
    /\ pc = End /\ Len(builds) = 1
    /\ Len(jobs) = 1 /\ jobs[1].image = builds[1]
    /\ \E d \in deployments : d.image = builds[1]
    /\ Len(runs) = 1 /\ \E op \in runs[1].package.ops : op.image = builds[1]

--------------------------------------------------------------------------
(* prow_config.yaml: the workflows a change triggers *)

\* Paths and patterns are sequences of characters.
code_search == <<"c", "o", "d", "e", "_", "s", "e", "a", "r", "c", "h">>
mnist == <<"m", "n", "i", "s", "t">>
github_issue_summarization ==
    <<"g", "i", "t", "h", "u", "b", "_", "i", "s", "s", "u", "e", "_", "s", "u", "m", "m", "a", "r", "i", "z", "a", "t", "i", "o", "n">>
xgboost_ames_housing ==
    <<"x", "g", "b", "o", "o", "s", "t", "_", "a", "m", "e", "s", "_", "h", "o", "u", "s", "i", "n", "g">>
pytorch_mnist ==
    <<"p", "y", "t", "o", "r", "c", "h", "_", "m", "n", "i", "s", "t">>
xgboost_synthetic ==
    <<"x", "g", "b", "o", "o", "s", "t", "_", "s", "y", "n", "t", "h", "e", "t", "i", "c">>

Slash == <<"/">>
Star  == <<"*">>

\* the pattern <dir>/*
Under(dir) == dir \o Slash \o Star

\* Mutant: the xgboost workflow is scoped to the xgboost_synthetic example.
workflows_XgboostSynthetic ==
    <<[name |-> "unittests", component |-> "workflows",
       job_types |-> {"presubmit", "postsubmit", "periodic"},
       include_dirs |-> {}],
      [name |-> "code-search", component |-> "code_search",
       job_types |-> {"presubmit", "postsubmit"},
       include_dirs |-> {Under(code_search)}],
      [name |-> "mnist", component |-> "mnist",
       job_types |-> {"periodic", "presubmit", "postsubmit"},
       include_dirs |-> {Under(mnist)}],
      [name |-> "gis", component |-> "gis",
       job_types |-> {"periodic", "presubmit", "postsubmit"},
       include_dirs |-> {Under(github_issue_summarization)}],
      [name |-> "xgboost", component |-> "xgboost_ames_housing",
       job_types |-> {"presubmit", "postsubmit"},
       include_dirs |-> {Under(xgboost_synthetic)}],
      [name |-> "pytorch-mnist", component |-> "pytorch_mnist",
       job_types |-> {"periodic", "presubmit", "postsubmit"},
       include_dirs |-> {Under(pytorch_mnist)}]>>

\* workflows:
workflows ==
    <<[name |-> "unittests", component |-> "workflows",
       job_types |-> {"presubmit", "postsubmit", "periodic"},
       include_dirs |-> {}],
      [name |-> "code-search", component |-> "code_search",
       job_types |-> {"presubmit", "postsubmit"},
       include_dirs |-> {Under(code_search)}],
      [name |-> "mnist", component |-> "mnist",
       job_types |-> {"periodic", "presubmit", "postsubmit"},
       include_dirs |-> {Under(mnist)}],
      [name |-> "gis", component |-> "gis",
       job_types |-> {"periodic", "presubmit", "postsubmit"},
       include_dirs |-> {Under(github_issue_summarization)}],
      [name |-> "xgboost", component |-> "xgboost_ames_housing",
       job_types |-> {"presubmit", "postsubmit"},
       include_dirs |-> {Under(xgboost_ames_housing)}],
      [name |-> "pytorch-mnist", component |-> "pytorch_mnist",
       job_types |-> {"periodic", "presubmit", "postsubmit"},
       include_dirs |-> {Under(pytorch_mnist)}]>>

Workflow(name) == CHOOSE w \in {workflows[i] : i \in 1..Len(workflows)} : w.name = name
WorkflowNames  == {workflows[i].name : i \in 1..Len(workflows)}

\* Mutant: the pattern is searched for anywhere in the path instead of being
\* matched against the whole of it.
RECURSIVE FnmatchHere(_, _)
FnmatchHere(path, pattern) ==
    IF pattern = <<>> THEN path = <<>>
    ELSE IF Head(pattern) = "*"
         THEN \/ FnmatchHere(path, Tail(pattern))
              \/ path # <<>> /\ FnmatchHere(Tail(path), pattern)
         ELSE /\ path # <<>>
              /\ Head(pattern) = "?" \/ Head(pattern) = Head(path)
              /\ FnmatchHere(Tail(path), Tail(pattern))

Fnmatch_Search(path, pattern) ==
    \E i \in 1..(Len(path) + 1) : FnmatchHere(SubSeq(path, i, Len(path)), pattern)

\* include_dirs patterns are shell patterns matched against the whole path of
\* a changed file: "*" stands for any characters, "/" included, "?" for one.
RECURSIVE Fnmatch(_, _)
Fnmatch(path, pattern) ==
    IF pattern = <<>> THEN path = <<>>
    ELSE IF Head(pattern) = "*"
         THEN \/ Fnmatch(path, Tail(pattern))
              \/ path # <<>> /\ Fnmatch(Tail(path), pattern)
         ELSE /\ path # <<>>
              /\ Head(pattern) = "?" \/ Head(pattern) = Head(path)
              /\ Fnmatch(Tail(path), Tail(pattern))

\* a workflow without include_dirs is not scoped to directories
DirModified(w, files_changed) ==
    \/ w.include_dirs = {}
    \/ \E f \in files_changed : \E pattern \in w.include_dirs : Fnmatch(f, pattern)

\* a workflow runs for the job types it lists
Triggers(w, jt, files_changed) == jt \in w.job_types /\ DirModified(w, files_changed)

JobTypes == {"presubmit", "postsubmit", "periodic"}

\* the example directories of the repository with an entry in the file, and
\* the example the notebook belongs to
ExampleDirs == {code_search, mnist, github_issue_summarization,
                xgboost_ames_housing, pytorch_mnist, xgboost_synthetic}

\* files of a change: in an example directory, directly or deeper, in a
\* directory that holds an example's name inside its own, or at the top
FileNamesIn == {<<"a">>, <<"s", "/", "b">>}
Paths ==
    {d \o Slash \o f : d \in ExampleDirs, f \in FileNamesIn}
        \cup {<<"t", "/">> \o mnist \o Slash \o <<"a">>, <<"R">>}

Changes == {c \in SUBSET Paths : Cardinality(c) <= MaxChanged}

ProwInit ==
    /\ changed \in Changes
    /\ job_type \in JobTypes
    /\ triggered = NotRun
    /\ environ = Unset /\ osFresh
    /\ nbIdle /\ serveIdle /\ splitIdle

\* run_e2e_workflow for the change: every workflow of the file is considered
RunWorkflows ==
    /\ triggered = NotRun
    /\ triggered' = {workflows[i].name : i \in
                        {j \in 1..Len(workflows) :
                            Triggers(workflows[j], job_type, changed)}}
    /\ UNCHANGED <<changed, job_type, nbVars, osVars, serveVars, splitVars>>

ProwNext == RunWorkflows

ProwSpec == ProwInit /\ [][ProwNext]_vars

--------------------------------------------------------------------------
(* Claims about the Prow configuration *)

IsPrefix(p, q) == Len(p) <= Len(q) /\ SubSeq(q, 1, Len(p)) = p

\* every file of the change lies under dir
ConfinedTo(dir) == changed # {} /\ \A f \in changed : IsPrefix(dir \o Slash, f)

\* the example directory each E2E workflow tests
ExampleDirOf ==
    [n \in WorkflowNames \ {"unittests"} |->
        CASE n = "code-search"   -> code_search
          [] n = "mnist"         -> mnist
          [] n = "gis"           -> github_issue_summarization
          [] n = "xgboost"       -> xgboost_ames_housing
          [] n = "pytorch-mnist" -> pytorch_mnist]

MatchedBy(f) ==
    {n \in WorkflowNames : \E pattern \in Workflow(n).include_dirs : Fnmatch(f, pattern)}

\* C9: the include_dirs patterns of different workflows match no common
\* path; a change confined to one example directory triggers, besides
\* unittests, at most the E2E workflow of that directory; and unittests,
\* which has no include_dirs, is triggered by every change.
C9_OwnDirectoryOnly ==
    triggered # NotRun =>
        /\ \A f \in changed : Cardinality(MatchedBy(f)) <= 1
        /\ \A f \in changed : \A n \in MatchedBy(f) : IsPrefix(ExampleDirOf[n] \o Slash, f)
        /\ \A d \in ExampleDirs :
              ConfinedTo(d) =>
                 triggered \subseteq
                    {"unittests"} \cup {n \in DOMAIN ExampleDirOf : ExampleDirOf[n] = d}
        /\ "unittests" \in triggered

\* a change under pytorch_mnist has triggered pytorch-mnist and not mnist
C9_Witness ==
    /\ ConfinedTo(pytorch_mnist)
    /\ triggered = {"unittests", "pytorch-mnist"}

\* C10 as stated: a change confined to xgboost_synthetic triggers an E2E
\* workflow, that is a workflow other than unittests.
C10_SyntheticTriggersE2E ==
    (triggered # NotRun /\ ConfinedTo(xgboost_synthetic)
        /\ job_type \in {"presubmit", "postsubmit"}) =>
            \E n \in triggered : n # "unittests"

\* C10, amended: no workflow has an include_dirs pattern matching a path
\* under xgboost_synthetic, so a change confined to that directory triggers
\* the unittests workflow alone; the xgboost workflow is scoped to
\* xgboost_ames_housing/* and runs for presubmit and postsubmit changes there.
C10_SyntheticTriggersUnittestsOnly ==
    triggered # NotRun =>
        /\ ConfinedTo(xgboost_synthetic) =>
              /\ triggered = {"unittests"}
              /\ \A f \in changed : MatchedBy(f) = {}
        /\ (ConfinedTo(xgboost_ames_housing) /\ job_type # "periodic") =>
              triggered = {"unittests", "xgboost"}

\* a presubmit change of two files under xgboost_synthetic has run unittests only
C10_Witness ==
    /\ ConfinedTo(xgboost_synthetic) /\ Cardinality(changed) = 2
    /\ job_type = "presubmit"
    /\ triggered = {"unittests"}

--------------------------------------------------------------------------
(* ServeSpec: calls on HousingServe instances in one process *)

ServeInit ==
    /\ environ \in EnvValues
    /\ osFresh
    /\ serveIdle /\ nbIdle /\ prowIdle /\ splitIdle

\* HousingServe(model_file=a)
Construct ==
    \E a \in ArgValues :
        LET r == HousingServeInit(a, environ) IN
        /\ calls < MaxCalls
        /\ hs' = r.self
        /\ call' = [op |-> "init", arg |-> a, X |-> <<>>]
        /\ outcome' = [NoOutcome EXCEPT !.consulted = r.consulted]
        /\ calls' = calls + 1
        /\ loads' = 0
        /\ failedLoads' = 0
        /\ UNCHANGED <<nbVars, osVars, prowVars,
                   splitVars>>

\* hs.train()
Train ==
    \E fitted \in Models :
        LET r == HousingServeTrain(hs, files, fitted) IN
        /\ calls < MaxCalls
        /\ hs # NoInstance
        /\ files' = r.fs
        /\ trained' = IF r.raised THEN trained
                                  ELSE [trained EXCEPT ![hs.model_file] = fitted]
        /\ call' = [op |-> "train", arg |-> None, X |-> <<>>]
        /\ outcome' = [NoOutcome EXCEPT !.raised = r.raised]
        /\ calls' = calls + 1
        /\ UNCHANGED <<hs, loads, failedLoads, environ, nbVars, prowVars,
                   splitVars>>

\* hs.predict(X, None)
Predict ==
    \E X \in Inputs :
        LET r == HousingServePredict(hs, X, files) IN
        /\ calls < MaxCalls
        /\ hs # NoInstance
        /\ hs' = r.self
        /\ call' = [op |-> "predict", arg |-> None, X |-> X]
        /\ outcome' = [NoOutcome EXCEPT !.raised = r.raised, !.value = r.value,
                                         !.loaded = r.loaded]
        /\ calls' = calls + 1
        /\ loads' = IF r.loaded THEN loads + 1 ELSE loads
        /\ failedLoads' = IF r.raised /\ r.self.model = NoModel THEN failedLoads + 1
                                                                ELSE failedLoads
        /\ UNCHANGED <<osVars, nbVars, prowVars,
                   splitVars>>

ServeNext == Construct \/ Train \/ Predict

ServeSpec == ServeInit /\ [][ServeNext]_vars

--------------------------------------------------------------------------
(* Claims about HousingServe *)

\* C4: __init__ resolves model_file by strict precedence: a truthy argument
\* is used as is; otherwise MODEL_FILE's value if the variable is set;
\* otherwise "mockup-model.dat". The environment is not consulted when a
\* truthy argument is supplied.
C4_InitPrecedence ==
    call.op = "init" =>
        /\ Truthy(call.arg) => hs.model_file = call.arg /\ ~outcome.consulted
        /\ ~Truthy(call.arg) /\ environ # Unset => hs.model_file = environ
        /\ ~Truthy(call.arg) /\ environ = Unset => hs.model_file = "mockup-model.dat"

\* an argument is supplied while MODEL_FILE names another file
C4_Witness ==
    /\ call.op = "init" /\ Truthy(call.arg)
    /\ environ # Unset /\ environ # call.arg
    /\ hs.model_file = call.arg

\* C5: for a non-empty X of any number of rows, predict returns a list of
\* exactly one row of exactly two entries, both the model's prediction for
\* the first row of X.
C5_PredictFirstRow ==
    (call.op = "predict" /\ Len(call.X) > 0 /\ ~outcome.raised) =>
        /\ Len(outcome.value) = 1
        /\ Len(outcome.value[1]) = 2
        /\ outcome.value[1][1] = hs.model[call.X[1]]
        /\ outcome.value[1][2] = hs.model[call.X[1]]

\* an input of several rows whose later rows are predicted differently
C5_Witness ==
    /\ call.op = "predict" /\ ~outcome.raised
    /\ Len(call.X) > 1
    /\ hs.model[call.X[2]] # hs.model[call.X[1]]
    /\ outcome.value = <<<<hs.model[call.X[1]], hs.model[call.X[1]]>>>>

\* a step that is a call of the named method on the instance
IsCall(op) == calls' = calls + 1 /\ call'.op = op

\* C12: when predict reads the model file of an instance, the model it loads
\* is the one the most recent completed train() fitted for that file, whatever
\* instance ran it, and the value returned is computed from that model.
C12_TrainPredictRoundTrip ==
    (call.op = "predict" /\ outcome.loaded) =>
        /\ hs.model = trained[hs.model_file]
        /\ ~outcome.raised =>
              outcome.value = <<<<trained[hs.model_file][call.X[1]],
                                  trained[hs.model_file][call.X[1]]>>>>

\* a new instance has predicted from a file trained before it was constructed
C12_Witness ==
    /\ call.op = "predict" /\ outcome.loaded /\ ~outcome.raised
    /\ calls = MaxCalls /\ loads = 1
    /\ hs.model = trained[hs.model_file]
    /\ \E f \in FileNames : f # hs.model_file /\ trained[f] # NoFile
                                             /\ trained[f] # hs.model

C14_LoadFailureLeavesInstance ==
    /\ [](failedLoads > 0 /\ loads = 0 => hs.model = NoModel)
    /\ [][(IsCall("predict") /\ hs.model = NoModel /\ ~CanLoad(files, hs.model_file)) =>
             /\ outcome'.raised /\ ~outcome'.loaded
             /\ hs' = hs /\ files' = files]_vars
    /\ [][(IsCall("predict") /\ failedLoads > 0 /\ hs.model = NoModel
              /\ CanLoad(files, hs.model_file) /\ Len(call'.X) > 0) =>
             /\ ~outcome'.raised /\ outcome'.loaded
             /\ hs'.model_file = hs.model_file
             /\ hs'.model = files[hs.model_file]]_vars

\* a predict has loaded the file and returned after an earlier one failed
C14_Witness ==
    /\ failedLoads > 0
    /\ call.op = "predict" /\ outcome.loaded /\ ~outcome.raised
    /\ hs.model = files[hs.model_file]

\* C15: after __init__, whatever the argument and the environment,
\* self.model_file is a non-empty file name and self.model is None.
C15_ModelFileNonEmpty ==
    call.op = "init" =>
        /\ hs.model_file # None /\ hs.model_file # ""
        /\ hs.model = NoModel

--------------------------------------------------------------------------
(* read_synthetic_input *)

\* n_samples=200
n_samples == 200

TestSizeUnits == 2 ^ TestSizeBits
\* test_size=0.25
DefaultTestSize == TestSizeUnits \div 4

\* make_regression(n_samples=200, n_features=5, noise=0.1): a feature row and
\* a label per sample, no value missing; rows and labels are all distinct.
make_regression(seed) ==
    [X |-> [i \in 1..n_samples |-> seed * (n_samples + 1) + i],
     y |-> [i \in 1..n_samples |-> seed * (n_samples + 1) + n_samples - i]]

\* Mutant: the samples are shuffled before the split (here: reversed).
train_test_split_Shuffled(X, y, size) ==
    LET n       == Len(X)
        n_test  == (size * n + TestSizeUnits - 1) \div TestSizeUnits
        n_train == ((TestSizeUnits - size) * n) \div TestSizeUnits
        perm    == [i \in 1..n |-> n + 1 - i]
    IN  [train_X |-> [i \in 1..n_train |-> X[perm[i]]],
         test_X  |-> [i \in 1..n_test |-> X[perm[n_train + i]]],
         train_y |-> [i \in 1..n_train |-> y[perm[i]]],
         test_y  |-> [i \in 1..n_test |-> y[perm[n_train + i]]]]

\* train_test_split(X, y, test_size=size / TestSizeUnits, shuffle=False):
\* n_test = ceil(test_size * n), n_train = floor((1 - test_size) * n); the
\* train part is the first n_train samples, the test part the n_test after them.
train_test_split(X, y, size) ==
    LET n       == Len(X)
        n_test  == (size * n + TestSizeUnits - 1) \div TestSizeUnits
        n_train == ((TestSizeUnits - size) * n) \div TestSizeUnits
    IN  [train_X |-> SubSeq(X, 1, n_train),
         test_X  |-> SubSeq(X, n_train + 1, n_train + n_test),
         train_y |-> SubSeq(y, 1, n_train),
         test_y  |-> SubSeq(y, n_train + 1, n_train + n_test)]

\* a missing value (NaN) is written as a negative number
IsMissing(v) == v < 0

RECURSIVE SumPresent(_, _)
SumPresent(rows, n) ==
    IF n = 0 THEN 0
    ELSE (IF IsMissing(rows[n]) THEN 0 ELSE rows[n]) + SumPresent(rows, n - 1)

\* SimpleImputer().fit: the mean of the values present
ImputerFit(rows) ==
    LET present == Cardinality({i \in 1..Len(rows) : ~IsMissing(rows[i])})
    IN  IF present = 0 THEN 0 ELSE SumPresent(rows, Len(rows)) \div present

\* SimpleImputer().transform: missing values replaced by the fitted mean
ImputerTransform(rows, fitted_on) ==
    [i \in 1..Len(rows) |-> IF IsMissing(rows[i]) THEN ImputerFit(fitted_on)
                                                  ELSE rows[i]]

\* read_synthetic_input(test_size), given the data make_regression generated
read_synthetic_input(data, size) ==
    LET parts == train_test_split(data.X, data.y, size)
    IN  [train_X |-> ImputerTransform(parts.train_X, parts.train_X),
         train_y |-> parts.train_y,
         test_X  |-> ImputerTransform(parts.test_X, parts.train_X),
         test_y  |-> parts.test_y]

SplitInit ==
    /\ test_size \in 1..(TestSizeUnits - 1)
    /\ dataset = NoDataset /\ split = NoSplit
    /\ environ = Unset /\ osFresh
    /\ nbIdle /\ serveIdle /\ prowIdle

\* read_synthetic_input(test_size)
ReadSyntheticInput ==
    \E seed \in 1..NSeeds :
        /\ split = NoSplit
        /\ dataset' = make_regression(seed)
        /\ split' = read_synthetic_input(make_regression(seed), test_size)
        /\ UNCHANGED <<test_size, nbVars, osVars, serveVars, prowVars>>

SplitNext == ReadSyntheticInput

SplitSpec == SplitInit /\ [][SplitNext]_vars

\* C16: with the default test_size of 0.25 the 200 samples are split, in
\* their order, into the first 150 as train part and the last 50 as test
\* part; the parts are disjoint and together cover all samples; features and
\* labels stay aligned row by row.
C16_SplitInOrder ==
    (split # NoSplit /\ test_size = DefaultTestSize) =>
        /\ Len(dataset.X) = 200 /\ Len(dataset.y) = 200
        /\ Len(split.train_X) = 150 /\ Len(split.train_y) = 150
        /\ Len(split.test_X) = 50 /\ Len(split.test_y) = 50
        /\ \A i \in 1..150 : /\ split.train_X[i] = dataset.X[i]
                             /\ split.train_y[i] = dataset.y[i]
        /\ \A i \in 1..50 : /\ split.test_X[i] = dataset.X[150 + i]
                            /\ split.test_y[i] = dataset.y[150 + i]
        /\ split.train_X \o split.test_X = dataset.X
        /\ split.train_y \o split.test_y = dataset.y
        /\ {split.train_X[i] : i \in 1..150} \cap {split.test_X[i] : i \in 1..50} = {}

\* the default split of a generated data set
C16_Witness ==
    /\ split # NoSplit /\ test_size = DefaultTestSize
    /\ Len(split.train_X) = 150 /\ Len(split.test_X) = 50
    /\ split.train_X[1] = dataset.X[1] /\ split.test_y[50] = dataset.y[200]
    /\ dataset.X[1] # dataset.X[200]

==========================================================================
